---- MODULE Spec2Model ----
(***************************************************************************)
(* A model of polish/env/parallel_env.py: the ParallelEnv orchestrator     *)
(* that, once per sampling step, runs a primary (master_game) rollout,     *)
(* decides whether search (MCTS) rollouts are run from equally spaced      *)
(* states of it, and aggregates the rollout buffers into the current-step  *)
(* dataset (trajectory_...) and the policy dataset                         *)
(* (policy_trajectory_...).                                                *)
(*                                                                         *)
(* The two MCTSEnv instances (master_game, mcts_game) are code of          *)
(* polish/env/env.py, which is not part of the source at hand; what their  *)
(* rollouts return is modelled from their interface: a rollout is a buffer *)
(* of per-step samples whose dones flags are chosen nondeterministically.  *)
(***************************************************************************)
EXTENDS Integers, Sequences, FiniteSets, TLC

\* ------------------------------------------------------------------ bounds
MaxSteps == 2        \* largest step budget max_steps passed to play
MaxIter == 3         \* largest num_iterations given to the constructor
MaxFreq == 2         \* largest mcts_collect_data_freq
MaxLenSegment == 2   \* largest len_segment
MaxLongSteps == 5    \* largest step budget of the single-call instances
MaxDirectCalls == 2  \* most calls of the aggregate methods between two play calls
MaxDen == 3          \* largest denominator of a step fraction

VARIABLES
  len_segment,            \* self.len_segment
  sampling_step,          \* self.sampling_step
  mcts_start_step,        \* self.mcts_start_step
  mcts_end_step,          \* self.mcts_end_step
  mcts_enable,            \* self.mcts_enable
  mcts_sampling,          \* self.mcts_sampling
  mcts_collect_data_freq, \* self.mcts_collect_data_freq
  first_mcts,             \* self.first_mcts
  trajectory,             \* self.trajectory_<attr>, the current-step dataset
  policy_trajectory,      \* self.policy_trajectory_<attr>, the policy dataset
  master_game,            \* self.master_game: its buffer, env_states, rms handles
  mcts_game,              \* self.mcts_game: its buffer, init pair, rms handles
  num_iterations,         \* the constructor's num_iterations: the training
                          \* loop calls play once per iteration
  mcts_start_step_frac,   \* the constructor's mcts_start_step_frac, <<p, q>> = p/q
  mcts_end_step_frac,     \* the constructor's mcts_end_step_frac, <<p, q>> = p/q
  max_steps,              \* the step budget the training loop passes to play
  len_trajectories,       \* play's local len_trajectories in the last call
  launches,               \* the iterations of play's inner loop in the last call
  rollouts,               \* the buffers the search source produced in the last call
  events,                 \* the calls and assignments of the last play call, in order
  error,                  \* "none", or the exception the last play call raised
  calls_completed         \* number of play calls that returned normally

vars == <<len_segment, sampling_step, mcts_start_step, mcts_end_step, mcts_enable,
          mcts_sampling, mcts_collect_data_freq, first_mcts, trajectory,
          policy_trajectory, master_game, mcts_game, num_iterations, max_steps,
          mcts_start_step_frac, mcts_end_step_frac, len_trajectories,
          launches, rollouts, events, error, calls_completed>>

\* ----------------------------------------------------------------- helpers
RECURSIVE Sum(_)
Sum(s) == IF s = <<>> THEN 0 ELSE Head(s) + Sum(Tail(s))

Last(s) == s[Len(s)]

SetMin(S) == CHOOSE x \in S : \A y \in S : x <= y

\* math.ceil(float(a) / b) for integers a, b with b # 0.
CeilDiv(a, b) ==
  IF b > 0 THEN -((-a) \div b) ELSE -(a \div (-b))

\* Python's a % b for integers, b # 0: the result has the sign of b.
PyMod(a, b) ==
  IF b > 0 THEN a % b ELSE -((-a) % (-b))

\* Python's int(x) on an integral length: the value itself.
PyInt(l) == l

\* Mutant of IntTrunc: the product is rounded to the nearest integer.
IntRounded(frac, n) == (2 * frac[1] * n + frac[2]) \div (2 * frac[2])

\* int(frac * num_iterations) for a fraction <<p, q>> >= 0: truncation.
IntTrunc(frac, n) == (frac[1] * n) \div frac[2]

\* ------------------------------------------------------- attribute tables
PerStepAttrs ==
  {"trajectory_states", "trajectory_actions", "trajectory_values",
   "trajectory_neg_logprobs", "trajectory_means", "trajectory_logstds",
   "trajectory_per_step_rewards", "trajectory_returns"}

Attrs ==
  PerStepAttrs \cup {"trajectory_dones", "trajectory_per_episode_rewards",
                     "trajectory_per_episode_lengths"}

PolicyAttrs ==
  {"policy_trajectory_states", "policy_trajectory_actions",
   "policy_trajectory_values", "policy_trajectory_neg_logprobs",
   "policy_trajectory_per_step_rewards", "policy_trajectory_returns"}

\* data_attr_types of aggregate_mcts_data.
DataAttrType(a) ==
  CASE a = "trajectory_states" -> "observation_space.dtype"
    [] a = "trajectory_dones" -> "bool"
    [] OTHER -> "float32"

\* data_attr_types of aggregate_policy_data.
PolicyDataAttrType(a) ==
  IF a = "policy_trajectory_states" THEN "observation_space.dtype" ELSE "float32"

\* data_attr.split('_', 1)[1]: the name after the first underscore.
MasterDataAttr(a) ==
  CASE a = "policy_trajectory_states" -> "trajectory_states"
    [] a = "policy_trajectory_actions" -> "trajectory_actions"
    [] a = "policy_trajectory_values" -> "trajectory_values"
    [] a = "policy_trajectory_neg_logprobs" -> "trajectory_neg_logprobs"
    [] a = "policy_trajectory_per_step_rewards" -> "trajectory_per_step_rewards"
    [] a = "policy_trajectory_returns" -> "trajectory_returns"

\* ------------------------------------------------------- arrays and lists
\* A dataset attribute is a Python list or a numpy array: its element type
\* ("list" for a plain list) and its elements in order.
PyList(s) == [dtype |-> "list", elems |-> s]

\* np.asarray(s, dtype=t)
AsArray(s, t) == [dtype |-> t, elems |-> s]

\* np.concatenate((old, s), axis=0): the elements of both operands in order.
\* The dtype field keeps the accumulated array's type; numpy's promotion
\* with the inferred type of the list operand is not modelled.
Concatenate(old, s) == [dtype |-> old.dtype, elems |-> old.elems \o s]

\* ------------------------------------------------------- rollout buffers
\* The sample a rollout source records for one attribute at one position:
\* opaque, identified by the source, the play call, the search launch
\* (0 for the primary rollout) and the position.
Sample(a, src, call, k, t) == <<a, src, call, k, t>>

RECURSIVE EpLens(_, _, _)
EpLens(dones, i, cur) ==
  IF i > Len(dones) THEN <<>>
  ELSE IF dones[i] THEN <<cur + 1>> \o EpLens(dones, i + 1, 0)
  ELSE EpLens(dones, i + 1, cur + 1)

\* Lengths of the episodes completed inside a rollout with these dones.
EpisodeLengths(dones) == EpLens(dones, 1, 0)

\* The buffer a rollout source holds after a rollout with the given dones.
RolloutBuffer(src, call, k, dones) ==
  [a \in Attrs |->
     CASE a = "trajectory_dones" -> dones
       [] a = "trajectory_per_episode_lengths" -> EpisodeLengths(dones)
       [] a = "trajectory_per_episode_rewards" ->
            [e \in 1..Len(EpisodeLengths(dones)) |-> Sample(a, src, call, k, e)]
       [] OTHER -> [t \in 1..Len(dones) |-> Sample(a, src, call, k, t)]]

\* game.initialize_episode_data(): every attribute an empty list.
EmptyBuffer == [a \in Attrs |-> <<>>]

\* The dones sequences a run of at most m steps can record: m steps, or
\* fewer when the run ends early on an episode completion.
RunDones(m) ==
  UNION {{d \in [1..n -> BOOLEAN] : n < m => d[n]} : n \in 1..m}

\* The dones sequences a search rollout of horizon h can record: it ends at
\* its horizon or at its first episode completion.
SearchDones(h) ==
  IF h <= 0 THEN {<<>>}
  ELSE {d \in RunDones(h) : \A t \in 1..(Len(d) - 1) : ~d[t]}

\* Indexing a Python list of length n with idx: in range, and the element.
PyIndexOk(n, idx) == -n <= idx /\ idx < n

PyIndex(s, idx) == IF idx >= 0 THEN s[idx + 1] ELSE s[Len(s) + idx + 1]

\* --------------------------------------------------------- the operations
\* Mutant of mcts_sample_enable: the end step is included in the window.
mcts_sample_enable_end_included ==
  /\ mcts_enable
  /\ sampling_step >= mcts_start_step
  /\ sampling_step <= mcts_end_step

\* mcts_sample_enable(): the sampling step lies in the MCTS window.
mcts_sample_enable ==
  /\ mcts_enable
  /\ sampling_step >= mcts_start_step
  /\ sampling_step < mcts_end_step

\* initialize_episode_data(): the current-step dataset as empty lists.
initialize_episode_data == [a \in Attrs |-> PyList(<<>>)]

\* initialize_policy_episode_data(): the policy dataset as empty lists.
initialize_policy_episode_data == [a \in PolicyAttrs |-> PyList(<<>>)]

\* Mutant of process_trajectory_lengths: the branch for completed episodes
\* followed by an incomplete one is missing.
process_trajectory_lengths_no_tail(game, m) ==
  IF Last(game.buffer["trajectory_dones"])
  THEN game.buffer["trajectory_per_episode_lengths"]
  ELSE <<m>>

\* process_trajectory_lengths(game, max_steps)
process_trajectory_lengths(game, m) ==
  LET lengths == game.buffer["trajectory_per_episode_lengths"]
      len_traj ==
        IF Last(game.buffer["trajectory_dones"]) THEN lengths
        ELSE IF Len(lengths) > 0 THEN lengths \o <<m - Sum(lengths)>>
        ELSE <<m>>
  IN [j \in 1..Len(len_traj) |-> PyInt(len_traj[j])]

\* Mutant of aggregate_mcts_data: self.mcts_sampling is not consulted.
aggregate_mcts_data_flag_ignored(traj, sampling, master_buf, mcts_buf) ==
  [a \in Attrs |->
     IF Len(traj[a].elems) > 0
     THEN Concatenate(traj[a], mcts_buf[a])
     ELSE AsArray(mcts_buf[a], DataAttrType(a))]

\* Mutant of aggregate_mcts_data: the emptiness test is made on the search
\* buffer's attribute instead of the accumulated one.
aggregate_mcts_data_tests_new(traj, sampling, master_buf, mcts_buf) ==
  [a \in Attrs |->
     IF sampling
     THEN IF Len(mcts_buf[a]) > 0
          THEN Concatenate(traj[a], mcts_buf[a])
          ELSE AsArray(mcts_buf[a], DataAttrType(a))
     ELSE AsArray(master_buf[a], DataAttrType(a))]

\* aggregate_mcts_data(): the current-step dataset after the call, from the
\* dataset before it, self.mcts_sampling and the two sources' buffers.
aggregate_mcts_data(traj, sampling, master_buf, mcts_buf) ==
  [a \in Attrs |->
     IF sampling
     THEN IF Len(traj[a].elems) > 0
          THEN Concatenate(traj[a], mcts_buf[a])
          ELSE AsArray(mcts_buf[a], DataAttrType(a))
     ELSE AsArray(master_buf[a], DataAttrType(a))]

\* Mutant of aggregate_policy_data: the copy is appended to what the policy
\* dataset holds.
aggregate_policy_data_appends(master_buf) ==
  [a \in PolicyAttrs |->
     Concatenate(policy_trajectory[a], master_buf[MasterDataAttr(a)])]

\* aggregate_policy_data(): the policy dataset after the call.
aggregate_policy_data(master_buf) ==
  [a \in PolicyAttrs |->
     AsArray(master_buf[MasterDataAttr(a)], PolicyDataAttrType(a))]

\* num_inits of play for a segment of length L and len_segment U.
num_inits(L, U) == CeilDiv(L, U)

\* Mutant of last_state_interval: the remainder of the division.
last_state_interval_mod(L, U) == L % U

\* last_state_interval of play.
last_state_interval(L, U) == L - (num_inits(L, U) - 1) * U

\* Mutant of RangeLaunches: base_len is left out of the index.
RangeLaunchesNoBase(j, base_len, U, n, last) ==
  [k \in 1..(IF n > 0 THEN n ELSE 0) |->
     [seg |-> j,
      i |-> k - 1,
      index |-> U * (k - 1),
      max_horizon |-> IF k - 1 < n - 1 THEN U ELSE last]]

\* The iterations of play's inner loop (for i in range(num_inits)) for the
\* j-th trajectory, of length L, starting at base_len: the index read from
\* env_states and trajectory_actions and the max_horizon of the rollout.
RangeLaunches(j, base_len, U, n, last) ==
  [k \in 1..(IF n > 0 THEN n ELSE 0) |->
     [seg |-> j,
      i |-> k - 1,
      index |-> base_len + U * (k - 1),
      max_horizon |-> IF k - 1 < n - 1 THEN U ELSE last]]

SubSpans(j, base_len, L, U) ==
  RangeLaunches(j, base_len, U, num_inits(L, U), last_state_interval(L, U))

\* play's outer loop (for len_trajectory in len_trajectories) from the j-th
\* trajectory on, with base_len advanced by each trajectory's length.
RECURSIVE LaunchPlan(_, _, _, _)
LaunchPlan(lt, j, base_len, U) ==
  IF j > Len(lt) THEN <<>>
  ELSE SubSpans(j, base_len, lt[j], U) \o LaunchPlan(lt, j + 1, base_len + lt[j], U)

\* master_game after reset, initialize_episode_data and run_trajectory in
\* play call number `call`, its rollout recording `dones`.
PrimaryGame(call, dones) ==
  [master_game EXCEPT
     !.buffer = RolloutBuffer("master_game", call, 0, dones),
     !.env_states = [t \in 1..Len(dones) |-> <<"env_state", call, t>>]]

\* The loop iterations play would run for this primary rollout, and those it
\* runs before an index falls outside env_states (IndexError).
PlannedLaunches(game, m) ==
  IF len_segment = 0 THEN <<>>
  ELSE LaunchPlan(process_trajectory_lengths(game, m), 1, 0, len_segment)

\* The launches of plan whose index is outside a list of length n.
BadLaunches(plan, n) == {k \in 1..Len(plan) : ~PyIndexOk(n, plan[k].index)}

BeforeFirst(plan, bad) ==
  IF bad = {} THEN plan ELSE SubSeq(plan, 1, SetMin(bad) - 1)

ExecutedLaunches(game, m) ==
  BeforeFirst(PlannedLaunches(game, m),
              BadLaunches(PlannedLaunches(game, m), Len(game.env_states)))

\* The exception the search branch of play raises for this rollout, if any.
SearchError(game, m) ==
  IF len_segment = 0 THEN "ZeroDivisionError"
  ELSE IF BadLaunches(PlannedLaunches(game, m), Len(game.env_states)) # {}
  THEN "IndexError"
  ELSE "none"

\* The dones each launched search rollout may record, one per launch.
RECURSIVE OutcomeSeqs(_)
OutcomeSeqs(plan) ==
  IF plan = <<>> THEN {<<>>}
  ELSE {<<d>> \o rest : d \in SearchDones(Head(plan).max_horizon),
                        rest \in OutcomeSeqs(Tail(plan))}

\* run_mcts_trajectory of launch k in play call `call`: the search buffer.
SearchBuffer(call, k, dones) == RolloutBuffer("mcts_game", call, k, dones)

\* The dataset after aggregate_mcts_data has been called once after each of
\* the search buffers bufs[k..], in order, starting from traj.
RECURSIVE AggregateAll(_, _, _, _)
AggregateAll(traj, master_buf, bufs, k) ==
  IF k > Len(bufs) THEN traj
  ELSE AggregateAll(aggregate_mcts_data(traj, TRUE, master_buf, bufs[k]),
                    master_buf, bufs, k + 1)

Ev(op, arg) == [op |-> op, arg |-> arg]

\* Mutant of LaunchEvents: the search buffer is aggregated before the
\* rollout that fills it has run.
LaunchEventsAggregateFirst(l) ==
  <<Ev("mcts_game.mcts_initialization", l.index),
    Ev("mcts_game.initialize_episode_data", 0),
    Ev("aggregate_mcts_data", 0),
    Ev("mcts_game.run_mcts_trajectory", l.max_horizon)>>

\* The events of one launch: lines 271-283 of play.
LaunchEvents(l) ==
  <<Ev("mcts_game.mcts_initialization", l.index),
    Ev("mcts_game.initialize_episode_data", 0),
    Ev("mcts_game.run_mcts_trajectory", l.max_horizon),
    Ev("aggregate_mcts_data", 0)>>

RECURSIVE AllLaunchEvents(_)
AllLaunchEvents(plan) ==
  IF plan = <<>> THEN <<>>
  ELSE LaunchEvents(Head(plan)) \o AllLaunchEvents(Tail(plan))

\* Mutant of NextSamplingStep: the step is advanced twice.
NextSamplingStepTwice(s) == s + 2

\* self.sampling_step += 1
NextSamplingStep(s) == s + 1

\* Mutant of HandOffDue: the guard is not tested.
HandOffAlways == TRUE

\* The one-shot guard of the statistics hand-off: if self.first_mcts.
HandOffDue == first_mcts

\* Mutant of FrequencyGate: the window start is not subtracted.
FrequencyGateNoOffset ==
  PyMod(sampling_step, mcts_collect_data_freq) = 0

\* Mutant of FrequencyGate: the steps of the window are counted from one.
FrequencyGateFromOne ==
  PyMod(sampling_step - mcts_start_step + 1, mcts_collect_data_freq) = 0

\* The frequency gate of play:
\* (sampling_step - mcts_start_step) % mcts_collect_data_freq == 0.
FrequencyGate ==
  PyMod(sampling_step - mcts_start_step, mcts_collect_data_freq) = 0

\* The branch of play for a step outside the MCTS window (lines 228-234).
PlayPolicy(mg, ev) ==
  /\ trajectory' = aggregate_mcts_data(initialize_episode_data, FALSE,
                                       mg.buffer, mcts_game.buffer)
  /\ policy_trajectory' = aggregate_policy_data(mg.buffer)
  /\ mcts_sampling' = FALSE
  /\ events' = ev \o <<Ev("initialize_episode_data", 0),
                       Ev("initialize_policy_episode_data", 0),
                       Ev("aggregate_mcts_data", 0),
                       Ev("aggregate_policy_data", 0),
                       Ev("sampling_step += 1", 0)>>
  /\ sampling_step' = NextSamplingStep(sampling_step)
  /\ calls_completed' = calls_completed + 1
  /\ len_trajectories' = <<>>
  /\ launches' = <<>>
  /\ rollouts' = <<>>
  /\ error' = "none"
  /\ UNCHANGED <<first_mcts, mcts_game>>

\* Mutant of PlaySkipped: the current-step dataset is refreshed from the
\* primary rollout, as in a policy step.
PlaySkippedRefreshes(mg, mcts, ev) ==
  /\ mcts_game' = mcts
  /\ events' = ev \o <<Ev("sampling_step += 1", 0)>>
  /\ sampling_step' = NextSamplingStep(sampling_step)
  /\ calls_completed' = calls_completed + 1
  /\ len_trajectories' = <<>>
  /\ launches' = <<>>
  /\ rollouts' = <<>>
  /\ error' = "none"
  /\ trajectory' = aggregate_mcts_data(initialize_episode_data, FALSE,
                                       mg.buffer, mcts.buffer)
  /\ mcts_sampling' = FALSE
  /\ UNCHANGED policy_trajectory

\* The branch of play for a step in the MCTS window that the frequency gate
\* skips (lines 236-245, the if of line 244 false): nothing is aggregated.
PlaySkipped(mg, mcts, ev) ==
  /\ mcts_game' = mcts
  /\ events' = ev \o <<Ev("sampling_step += 1", 0)>>
  /\ sampling_step' = NextSamplingStep(sampling_step)
  /\ calls_completed' = calls_completed + 1
  /\ len_trajectories' = <<>>
  /\ launches' = <<>>
  /\ rollouts' = <<>>
  /\ error' = "none"
  /\ UNCHANGED <<trajectory, policy_trajectory, mcts_sampling>>

\* The search branch for the launches `plan` it executes, the buffers `bufs`
\* they produce and the exception `err` it ends with; `cleared` is the
\* dataset self.initialize_episode_data() leaves.
PlaySearchWith(mg, mcts, ev, m, plan, err, bufs, cleared) ==
     /\ trajectory' = AggregateAll(cleared, mg.buffer, bufs, 1)
     /\ policy_trajectory' =
          IF err = "none" THEN aggregate_policy_data(mg.buffer)
          ELSE initialize_policy_episode_data
     /\ mcts_sampling' = TRUE
     /\ mcts_game' =
          IF plan = <<>> THEN mcts
          ELSE [mcts EXCEPT
                  !.buffer = Last(bufs),
                  !.init_state = PyIndex(mg.env_states, Last(plan).index),
                  !.init_action = PyIndex(mg.buffer["trajectory_actions"],
                                          Last(plan).index)]
     /\ events' = ev \o <<Ev("initialize_episode_data", 0),
                          Ev("initialize_policy_episode_data", 0),
                          Ev("mcts_game.update_estimator", 0),
                          Ev("process_trajectory_lengths", m)>>
                     \o AllLaunchEvents(plan)
                     \o (IF err = "none"
                         THEN <<Ev("aggregate_policy_data", 0),
                                Ev("sampling_step += 1", 0)>>
                         ELSE <<>>)
     /\ len_trajectories' = process_trajectory_lengths(mg, m)
     /\ launches' = plan
     /\ rollouts' = bufs
     /\ error' = err
     /\ sampling_step' =
          IF err = "none" THEN NextSamplingStep(sampling_step) ELSE sampling_step
     /\ calls_completed' =
          IF err = "none" THEN calls_completed + 1 ELSE calls_completed

\* Mutant of PlaySearch: the current-step dataset is not cleared first.
PlaySearchNoClear(mg, mcts, ev, m, outs) ==
  PlaySearchWith(mg, mcts, ev, m, ExecutedLaunches(mg, m), SearchError(mg, m),
                 [k \in 1..Len(outs) |-> SearchBuffer(sampling_step, k, outs[k])],
                 trajectory)

\* The branch of play that runs the search rollouts (lines 246-286).
PlaySearch(mg, mcts, ev, m, outs) ==
  PlaySearchWith(mg, mcts, ev, m, ExecutedLaunches(mg, m), SearchError(mg, m),
                 [k \in 1..Len(outs) |-> SearchBuffer(sampling_step, k, outs[k])],
                 initialize_episode_data)

\* The branch of play for a step in the MCTS window (lines 235-286).
PlayEligibleWith(mg, ev, m, outs, mcts, ev1) ==
     /\ first_mcts' = IF HandOffDue THEN FALSE ELSE first_mcts
     /\ IF mcts_collect_data_freq = 0
        THEN /\ mcts_game' = mcts
             /\ events' = ev1
             /\ error' = "ZeroDivisionError"
             /\ len_trajectories' = <<>>
             /\ launches' = <<>>
             /\ rollouts' = <<>>
             /\ UNCHANGED <<trajectory, policy_trajectory, mcts_sampling,
                            sampling_step, calls_completed>>
        ELSE IF FrequencyGate
        THEN PlaySearch(mg, mcts, ev1, m, outs)
        ELSE PlaySkipped(mg, mcts, ev1)

\* Mutant of PlayEligible: the hand-off gives the search source copies of
\* the primary source's statistics objects.
PlayEligibleCopies(mg, ev, m, outs) ==
  PlayEligibleWith(mg, ev, m, outs,
     IF HandOffDue
     THEN [mcts_game EXCEPT !.ob_rms = <<"copy", mg.ob_rms>>,
                            !.ret_rms = <<"copy", mg.ret_rms>>]
     ELSE mcts_game,
     IF HandOffDue THEN ev \o <<Ev("rebind_rms", 0)>> ELSE ev)

\* The hand-off of lines 236-242, then the rest of the branch.
PlayEligible(mg, ev, m, outs) ==
  PlayEligibleWith(mg, ev, m, outs,
     IF HandOffDue
     THEN [mcts_game EXCEPT !.ob_rms = mg.ob_rms, !.ret_rms = mg.ret_rms]
     ELSE mcts_game,
     IF HandOffDue THEN ev \o <<Ev("rebind_rms", 0)>> ELSE ev)

\* The search rollouts' outcomes to choose among in a play call with this
\* primary rollout: one dones sequence per launch when the step runs search.
OutcomeChoices(m, dones) ==
  IF mcts_sample_enable /\ mcts_collect_data_freq # 0 /\ FrequencyGate
  THEN OutcomeSeqs(ExecutedLaunches(PrimaryGame(sampling_step, dones), m))
  ELSE {<<>>}

\* play(max_steps): the primary rollout records `dones`, the k-th search
\* rollout records outs[k].
Play(m, dones, outs) ==
  LET mg == PrimaryGame(sampling_step, dones)
      ev == <<Ev("master_game.update_estimator", 0),
              Ev("master_game.reset", 0),
              Ev("master_game.initialize_episode_data", 0),
              Ev("master_game.run_trajectory", m)>>
  IN /\ error = "none"
     /\ sampling_step < num_iterations
     /\ m = max_steps
     /\ master_game' = mg
     /\ IF ~mcts_sample_enable
        THEN PlayPolicy(master_game', ev)
        ELSE PlayEligible(master_game', ev, m, outs)
     /\ UNCHANGED <<len_segment, mcts_start_step, mcts_end_step, mcts_enable,
                    mcts_collect_data_freq, num_iterations, max_steps,
                    mcts_start_step_frac, mcts_end_step_frac>>

\* ------------------------------------------------------------ construction
\* The step fractions the constructor is given: its defaults 0.1 and 0.9,
\* and one half, as <<numerator, denominator>>.
StepFracs == {<<1, 10>>, <<1, 2>>, <<9, 10>>}

\* The state after __init__ with these arguments, in a training loop that
\* calls play(m) once per iteration.
Constructed(ls, en, sf, ef, n, fr, m) ==
  /\ trajectory = initialize_episode_data
  /\ policy_trajectory = initialize_policy_episode_data
  /\ len_segment = ls
  /\ sampling_step = 0
  /\ mcts_start_step = IntTrunc(sf, n)
  /\ mcts_end_step = IntTrunc(ef, n)
  /\ mcts_enable = en
  /\ mcts_sampling = FALSE
  /\ mcts_collect_data_freq = fr
  /\ first_mcts = TRUE
  /\ master_game = [buffer |-> EmptyBuffer, env_states |-> <<>>,
                    ob_rms |-> "master_game._ob_rms",
                    ret_rms |-> "master_game._ret_rms"]
  /\ mcts_game = [buffer |-> EmptyBuffer, init_state |-> <<>>, init_action |-> <<>>,
                  ob_rms |-> "mcts_game._ob_rms",
                  ret_rms |-> "mcts_game._ret_rms"]
  /\ num_iterations = n
  /\ mcts_start_step_frac = sf
  /\ mcts_end_step_frac = ef
  /\ max_steps = m
  /\ len_trajectories = <<>>
  /\ launches = <<>>
  /\ rollouts = <<>>
  /\ events = <<>>
  /\ error = "none"
  /\ calls_completed = 0

Init ==
  \E ls \in 1..MaxLenSegment, en \in BOOLEAN, sf \in StepFracs, ef \in StepFracs,
     n \in 0..MaxIter, fr \in 1..MaxFreq, m \in 1..MaxSteps :
    Constructed(ls, en, sf, ef, n, fr, m)

Next ==
  \E dones \in RunDones(max_steps) :
    \E outs \in OutcomeChoices(max_steps, dones) :
      Play(max_steps, dones, outs)

Spec == Init /\ [][Next]_vars

\* Instances whose MCTS window is the single step 0 and whose training loop
\* makes one play call, with longer primary rollouts.
InitLong ==
  \E ls \in 1..MaxLenSegment, m \in 1..MaxLongSteps :
    Constructed(ls, TRUE, <<1, 10>>, <<1, 1>>, 1, 1, m)

SpecLong == InitLong /\ [][Next]_vars

\* Instances built from any configuration the constructor accepts, among
\* them a len_segment that is zero or negative and a window whose start
\* fraction is not below its end fraction.
InitConfig ==
  \E ls \in -1..1, en \in BOOLEAN, sf \in StepFracs, ef \in StepFracs,
     n \in 0..MaxIter, fr \in 1..MaxFreq, m \in 1..MaxSteps :
    Constructed(ls, en, sf, ef, n, fr, m)

SpecConfig == InitConfig /\ [][Next]_vars

\* The instances of Init and those of InitLong together: every mode of
\* play, and search steps of many launches.
InitBoth == Init \/ InitLong

SpecBoth == InitBoth /\ [][Next]_vars

\* The fractions p/q of [0, 1] with a small denominator.
Fracs == UNION {{<<p, q>> : p \in 0..q} : q \in 1..MaxDen}

\* Instances built with any two such fractions, playing one-step rollouts.
InitFrac ==
  \E sf \in Fracs, ef \in Fracs, n \in 0..MaxIter :
    Constructed(1, TRUE, sf, ef, n, 1, 1)

SpecFrac == InitFrac /\ [][Next]_vars

\* The instance built with the default fractions 0.1 and 0.9 for a training
\* loop of 100 iterations of one step each, besides the instances of Init.
InitWindow ==
  \/ Init
  \/ Constructed(1, TRUE, <<1, 10>>, <<9, 10>>, 100, 1, 1)

SpecWindow == InitWindow /\ [][Next]_vars

\* ------------------------------------ a merge that raises part-way through
\* The order in which `for data_attr, data_type in data_attr_types.items()`
\* visits the attributes: the order of the dict literal.
AttrOrder ==
  <<"trajectory_states", "trajectory_actions", "trajectory_values",
    "trajectory_neg_logprobs", "trajectory_means", "trajectory_logstds",
    "trajectory_per_episode_rewards", "trajectory_per_episode_lengths",
    "trajectory_dones", "trajectory_per_step_rewards", "trajectory_returns">>

PolicyAttrOrder ==
  <<"policy_trajectory_states", "policy_trajectory_actions",
    "policy_trajectory_values", "policy_trajectory_neg_logprobs",
    "policy_trajectory_per_step_rewards", "policy_trajectory_returns">>

\* The position of attribute a in the iteration order `order`.
PosIn(order, a) == CHOOSE i \in DOMAIN order : order[i] = a

\* The primary attributes aggregate_policy_data reads.
PolicySources == {MasterDataAttr(a) : a \in PolicyAttrs}

\* A buffer whose attribute `bad` holds values np.asarray cannot coerce to
\* the attribute's type.
Uncoercible(buf, bad) ==
  [buf EXCEPT ![bad] = [t \in DOMAIN @ |-> <<"uncoercible", @[t]>>]]

\* aggregate_mcts_data() when np.asarray raises at the primary attribute
\* `bad`: the attributes visited before it have been set, the others not.
aggregate_mcts_data_raising(traj, sampling, master_buf, mcts_buf, bad) ==
  [a \in Attrs |->
     IF PosIn(AttrOrder, a) < PosIn(AttrOrder, bad)
     THEN aggregate_mcts_data(traj, sampling, master_buf, mcts_buf)[a]
     ELSE traj[a]]

\* aggregate_policy_data() when np.asarray raises at the primary attribute
\* `bad`: the attributes visited before its copy have been set.
aggregate_policy_data_raising(pol, master_buf, bad) ==
  [a \in PolicyAttrs |->
     IF \E b \in PolicyAttrs :
          /\ MasterDataAttr(b) = bad
          /\ PosIn(PolicyAttrOrder, a) < PosIn(PolicyAttrOrder, b)
     THEN aggregate_policy_data(master_buf)[a]
     ELSE pol[a]]

\* play(max_steps) when the primary rollout leaves in its attribute `bad`
\* values that cannot be coerced, at a step where a merge reads them: the
\* policy branch raises inside aggregate_mcts_data (line 233), the search
\* branch inside aggregate_policy_data (line 286).
PlayRaising(m, dones, outs, bad) ==
  LET good == PrimaryGame(sampling_step, dones)
      mg == [good EXCEPT !.buffer = Uncoercible(good.buffer, bad)]
      ev == <<Ev("master_game.update_estimator", 0),
              Ev("master_game.reset", 0),
              Ev("master_game.initialize_episode_data", 0),
              Ev("master_game.run_trajectory", m)>>
      mcts == IF HandOffDue
              THEN [mcts_game EXCEPT !.ob_rms = mg.ob_rms, !.ret_rms = mg.ret_rms]
              ELSE mcts_game
      ev1 == IF HandOffDue THEN ev \o <<Ev("rebind_rms", 0)>> ELSE ev
      plan == ExecutedLaunches(mg, m)
      bufs == [k \in 1..Len(outs) |-> SearchBuffer(sampling_step, k, outs[k])]
  IN /\ error = "none"
     /\ sampling_step < num_iterations
     /\ m = max_steps
     /\ master_game' = mg
     /\ error' = "ValueError"
     /\ IF ~mcts_sample_enable
        THEN /\ trajectory' = aggregate_mcts_data_raising(
                                 initialize_episode_data, FALSE,
                                 mg.buffer, mcts_game.buffer, bad)
             /\ policy_trajectory' = initialize_policy_episode_data
             /\ mcts_sampling' = FALSE
             /\ events' = ev \o <<Ev("initialize_episode_data", 0),
                                  Ev("initialize_policy_episode_data", 0),
                                  Ev("aggregate_mcts_data", 0)>>
             /\ len_trajectories' = <<>>
             /\ launches' = <<>>
             /\ rollouts' = <<>>
             /\ UNCHANGED <<first_mcts, mcts_game>>
        ELSE /\ mcts_collect_data_freq # 0
             /\ FrequencyGate
             /\ SearchError(mg, m) = "none"
             /\ bad \in PolicySources
             /\ first_mcts' = IF HandOffDue THEN FALSE ELSE first_mcts
             /\ trajectory' = AggregateAll(initialize_episode_data, mg.buffer,
                                           bufs, 1)
             /\ policy_trajectory' = aggregate_policy_data_raising(
                                        initialize_policy_episode_data,
                                        mg.buffer, bad)
             /\ mcts_sampling' = TRUE
             /\ mcts_game' =
                  IF plan = <<>> THEN mcts
                  ELSE [mcts EXCEPT
                          !.buffer = Last(bufs),
                          !.init_state = PyIndex(mg.env_states, Last(plan).index),
                          !.init_action = PyIndex(mg.buffer["trajectory_actions"],
                                                  Last(plan).index)]
             /\ events' = ev1 \o <<Ev("initialize_episode_data", 0),
                                   Ev("initialize_policy_episode_data", 0),
                                   Ev("mcts_game.update_estimator", 0),
                                   Ev("process_trajectory_lengths", m)>>
                              \o AllLaunchEvents(plan)
                              \o <<Ev("aggregate_policy_data", 0)>>
             /\ len_trajectories' = process_trajectory_lengths(mg, m)
             /\ launches' = plan
             /\ rollouts' = bufs
     /\ UNCHANGED <<len_segment, sampling_step, calls_completed, mcts_start_step,
                    mcts_end_step, mcts_enable, mcts_collect_data_freq,
                    num_iterations, max_steps, mcts_start_step_frac,
                    mcts_end_step_frac>>

\* Instances whose MCTS window is the single step 0: a search step, then a
\* policy step, either of which may meet values it cannot coerce.
InitFault ==
  \E ls \in 1..MaxLenSegment, m \in 1..MaxSteps :
    Constructed(ls, TRUE, <<1, 10>>, <<1, 2>>, 2, 1, m)

NextFault ==
  \/ Next
  \/ \E dones \in RunDones(max_steps) :
       \E outs \in OutcomeChoices(max_steps, dones) :
         \E bad \in PerStepAttrs : PlayRaising(max_steps, dones, outs, bad)

SpecFault == InitFault /\ [][NextFault]_vars

\* ----------------------------------------- the aggregate methods, called
\* directly by the owner of the instance between two play calls.
DirectCalls ==
  Cardinality({i \in DOMAIN events :
                 events[i].op \in {"caller.aggregate_mcts_data",
                                   "caller.aggregate_policy_data"}})

\* self.aggregate_mcts_data() called from outside play.
CallAggregateMctsData ==
  /\ error = "none"
  /\ DirectCalls < MaxDirectCalls
  /\ trajectory' = aggregate_mcts_data(trajectory, mcts_sampling,
                                       master_game.buffer, mcts_game.buffer)
  /\ events' = Append(events, Ev("caller.aggregate_mcts_data", 0))
  /\ UNCHANGED <<len_segment, sampling_step, mcts_start_step, mcts_end_step,
                 mcts_enable, mcts_sampling, mcts_collect_data_freq, first_mcts,
                 policy_trajectory, master_game, mcts_game, num_iterations,
                 max_steps, mcts_start_step_frac, mcts_end_step_frac,
                 len_trajectories, launches, rollouts, error, calls_completed>>

\* self.aggregate_policy_data() called from outside play.
CallAggregatePolicyData ==
  /\ error = "none"
  /\ DirectCalls < MaxDirectCalls
  /\ policy_trajectory' = aggregate_policy_data(master_game.buffer)
  /\ events' = Append(events, Ev("caller.aggregate_policy_data", 0))
  /\ UNCHANGED <<len_segment, sampling_step, mcts_start_step, mcts_end_step,
                 mcts_enable, mcts_sampling, mcts_collect_data_freq, first_mcts,
                 trajectory, master_game, mcts_game, num_iterations,
                 max_steps, mcts_start_step_frac, mcts_end_step_frac,
                 len_trajectories, launches, rollouts, error, calls_completed>>

\* Instances whose MCTS window is the single step 0 and whose training loop
\* makes two play calls: a search step, then a policy step.
InitAgg ==
  \E ls \in 1..MaxLenSegment, m \in 1..MaxSteps :
    Constructed(ls, TRUE, <<1, 10>>, <<1, 2>>, 2, 1, m)

NextAgg ==
  \/ Next
  \/ CallAggregateMctsData
  \/ CallAggregatePolicyData

SpecAgg == InitAgg /\ [][NextAgg]_vars

\* ================================================================ claims
\* The step at which the last completed play call was entered.
EntryStep == sampling_step - 1

\* The step s lies in the MCTS window of an enabled instance.
EligibleAt(s) == mcts_enable /\ mcts_start_step <= s /\ s < mcts_end_step

\* The step s is in the window and on the collection frequency.
ActiveAt(s) ==
  EligibleAt(s) /\ (s - mcts_start_step) % mcts_collect_data_freq = 0

\* The last play call initialised and ran the search source.
SearchLaunched ==
  \E i \in DOMAIN events :
    events[i].op \in {"mcts_game.mcts_initialization",
                      "mcts_game.run_mcts_trajectory"}

\* The last play call rebound the search source's statistics.
HandOffDone == \E i \in DOMAIN events : events[i].op = "rebind_rms"

\* The policy dataset holds the primary rollout of the last play call.
PolicyMirrorsPrimary ==
  /\ policy_trajectory["policy_trajectory_states"].elems
       = master_game.buffer["trajectory_states"]
  /\ policy_trajectory["policy_trajectory_actions"].elems
       = master_game.buffer["trajectory_actions"]
  /\ policy_trajectory["policy_trajectory_values"].elems
       = master_game.buffer["trajectory_values"]
  /\ policy_trajectory["policy_trajectory_neg_logprobs"].elems
       = master_game.buffer["trajectory_neg_logprobs"]
  /\ policy_trajectory["policy_trajectory_per_step_rewards"].elems
       = master_game.buffer["trajectory_per_step_rewards"]
  /\ policy_trajectory["policy_trajectory_returns"].elems
       = master_game.buffer["trajectory_returns"]

\* The current-step dataset holds the primary rollout of the last play call.
DatasetMirrorsPrimary ==
  \A a \in Attrs : trajectory[a].elems = master_game.buffer[a]

RECURSIVE ConcatAttr(_, _, _)
ConcatAttr(bufs, a, k) ==
  IF k > Len(bufs) THEN <<>> ELSE bufs[k][a] \o ConcatAttr(bufs, a, k + 1)

\* The current-step dataset is the search buffers of the last call in order.
DatasetIsSearchData ==
  \A a \in Attrs : trajectory[a].elems = ConcatAttr(rollouts, a, 1)

\* The samples held by the current-step dataset.
DatasetSamples ==
  UNION {{trajectory[a].elems[i] : i \in DOMAIN trajectory[a].elems} :
           a \in PerStepAttrs \cup {"trajectory_per_episode_rewards"}}

\* C1: search rollouts are launched in a play call if and only if, at entry,
\* mcts_enable holds, mcts_start_step <= sampling_step < mcts_end_step and
\* (sampling_step - mcts_start_step) mod mcts_collect_data_freq = 0.
C1_SearchLaunchedIffActive ==
  [][SearchLaunched' <=> ActiveAt(sampling_step)]_vars

\* C1 witness: a play call entered at a step past the first one that ran
\* search rollouts, in an instance that also skips steps.
C1_Witness ==
  /\ SearchLaunched
  /\ launches # <<>>
  /\ EntryStep >= 1
  /\ mcts_collect_data_freq > 1

\* C2 (as stated): after every completed play call, in every mode, each of
\* the six policy attributes equals the primary rollout's attribute of that
\* same call.
C2_PolicyRefreshedEveryStep ==
  calls_completed > 0 => PolicyMirrorsPrimary

\* C3: the statistics hand-off happens in exactly the first play call whose
\* entry step is eligible; first_mcts is true until then and false from
\* then on; the handles are rebound in that call and in no other.
C3_HandOffExactlyOnce ==
  [][/\ first_mcts <=> ~(\E t \in 0..(sampling_step - 1) : EligibleAt(t))
     /\ HandOffDone' <=> (EligibleAt(sampling_step) /\ first_mcts)
     /\ first_mcts' <=> (first_mcts /\ ~EligibleAt(sampling_step))
     /\ HandOffDone' =>
          /\ mcts_game'.ob_rms = master_game'.ob_rms
          /\ mcts_game'.ret_rms = master_game'.ret_rms
     /\ ~HandOffDone' =>
          /\ mcts_game'.ob_rms = mcts_game.ob_rms
          /\ mcts_game'.ret_rms = mcts_game.ret_rms]_vars

\* C3 witness: an eligible step entered after the hand-off: the guard is
\* down, the handles are shared and the last call did not rebind them.
C3_Witness ==
  /\ calls_completed >= 2
  /\ EligibleAt(EntryStep)
  /\ ~first_mcts
  /\ ~HandOffDone
  /\ mcts_game.ob_rms = master_game.ob_rms

\* C4: sampling_step is 0 after construction and is the number of completed
\* play calls, whatever branch each of them took.
C4_StepCountsCalls ==
  /\ sampling_step = calls_completed
  /\ calls_completed = 0 => events = <<>>

\* C4 witness: three completed calls of which one ran search, one was
\* skipped by the frequency gate and one was outside the window.
C4_Witness ==
  /\ sampling_step = 3
  /\ ActiveAt(0)
  /\ EligibleAt(1) /\ ~ActiveAt(1)
  /\ ~EligibleAt(2)

\* C5 (as stated): after every completed play call the current-step dataset
\* is the search data of that call when search is active for the step, and
\* the primary rollout of that call otherwise.
C5_DatasetRebuiltEveryStep ==
  calls_completed > 0 =>
    IF ActiveAt(EntryStep) THEN DatasetIsSearchData ELSE DatasetMirrorsPrimary

\* C5 (amended): a play call entered at a step that is not an eligible
\* step skipped by the frequency gate rebuilds the current-step dataset
\* from that call only (its search rollouts when the step is active, its
\* primary rollout otherwise); a call entered at a skipped step leaves the
\* dataset as it was.
C5_DatasetRebuiltUnlessSkipped ==
  [][IF EligibleAt(sampling_step) /\ ~ActiveAt(sampling_step)
     THEN trajectory' = trajectory
     ELSE /\ \A x \in DatasetSamples' : x[3] = sampling_step
          /\ IF ActiveAt(sampling_step)
             THEN /\ DatasetIsSearchData'
                  /\ \A x \in DatasetSamples' : x[2] = "mcts_game"
             ELSE DatasetMirrorsPrimary']_vars

\* C5 witness: after a skipped step the dataset holds samples of an earlier
\* play call.
C5_Witness ==
  /\ calls_completed > 0
  /\ EligibleAt(EntryStep) /\ ~ActiveAt(EntryStep)
  /\ \E x \in DatasetSamples : x[3] < EntryStep

\* C6: after a play call entered at a step that is not eligible,
\* mcts_sampling is false and every attribute of the current-step dataset
\* is an array of its declared type holding the primary rollout of the call.
C6_PolicyStepMirrorsPrimary ==
  (calls_completed > 0 /\ ~EligibleAt(EntryStep)) =>
    /\ mcts_sampling = FALSE
    /\ DatasetMirrorsPrimary
    /\ \A a \in Attrs : trajectory[a].dtype # "list"

\* C6 witness: an ineligible step entered right after a search-active one.
C6_Witness ==
  /\ calls_completed >= 2
  /\ ~EligibleAt(EntryStep)
  /\ ActiveAt(EntryStep - 1)
  /\ DatasetMirrorsPrimary

\* C7: after a search-active play call that launched search rollouts, every
\* attribute of the current-step dataset is the concatenation, in launch
\* order, of that attribute of the search buffers.
C7_DatasetIsConcatenation ==
  (rollouts # <<>> /\ error = "none") => DatasetIsSearchData

\* C7 witness: three launches of which the first and the last completed no
\* episode (empty per-episode attributes) and the second completed one.
C7_Witness ==
  /\ Len(rollouts) >= 3
  /\ rollouts[1]["trajectory_per_episode_lengths"] = <<>>
  /\ rollouts[2]["trajectory_per_episode_lengths"] # <<>>
  /\ rollouts[3]["trajectory_per_episode_lengths"] = <<>>
  /\ DatasetIsSearchData

\* The primary rollout of the last play call filled the whole step budget.
PrimaryFull == Len(master_game.buffer["trajectory_dones"]) = max_steps

\* C8: for a primary rollout of exactly max_steps steps,
\* process_trajectory_lengths returns positive integers summing to
\* max_steps: per_episode_lengths when the last step is terminal,
\* per_episode_lengths followed by the remainder when it is not and an
\* episode completed, and the single length max_steps when none completed.
C8_PlannerLengths ==
  (len_trajectories # <<>> /\ PrimaryFull) =>
    LET lengths == master_game.buffer["trajectory_per_episode_lengths"]
        dones == master_game.buffer["trajectory_dones"]
    IN /\ \A j \in DOMAIN len_trajectories : len_trajectories[j] >= 1
       /\ Sum(len_trajectories) = max_steps
       /\ dones[max_steps] => len_trajectories = lengths
       /\ (~dones[max_steps] /\ lengths # <<>>) =>
            len_trajectories = Append(lengths, max_steps - Sum(lengths))
       /\ (~dones[max_steps] /\ lengths = <<>>) =>
            len_trajectories = <<max_steps>>

\* C8 witness: two completed episodes followed by an incomplete tail.
C8_Witness ==
  /\ PrimaryFull
  /\ Len(master_game.buffer["trajectory_per_episode_lengths"]) = 2
  /\ Len(len_trajectories) = 3
  /\ len_trajectories[3] >= 1

\* The launches of the last play call for its j-th planned segment.
LaunchesOf(j) == SelectSeq(launches, LAMBDA l : l.seg = j)

\* ceil(L / U) for L >= 1, U >= 1: the least n with n * U >= L.
CeilOf(L, U) == CHOOSE n \in 1..L : n * U >= L /\ (n - 1) * U < L

\* C9: in a search-active step, for every planned segment of length L >= 1
\* and len_segment U >= 1, play launches ceil(L / U) search rollouts, with
\* horizon U for all but the last and L - (ceil(L / U) - 1) * U for the
\* last; the horizons sum to L, each is in 1..U, and the last is U when U
\* divides L.
C9_SubSpans ==
  (launches # <<>> /\ error = "none") =>
    \A j \in DOMAIN len_trajectories :
      LET L == len_trajectories[j]
          U == len_segment
          ls == LaunchesOf(j)
          n == CeilOf(L, U)
      IN (L >= 1 /\ U >= 1) =>
           /\ Len(ls) = n
           /\ \A k \in 1..(n - 1) : ls[k].max_horizon = U
           /\ ls[n].max_horizon = L - (n - 1) * U
           /\ Sum([k \in 1..n |-> ls[k].max_horizon]) = L
           /\ \A k \in 1..n : ls[k].max_horizon \in 1..U
           /\ (L % U = 0) => ls[n].max_horizon = U

\* C9 witness: a segment cut into two sub-spans of which the last is
\* shorter, and a segment that is an exact multiple of len_segment.
C9_Witness ==
  /\ len_segment = 2
  /\ error = "none"
  /\ \E j \in DOMAIN len_trajectories :
       /\ len_trajectories[j] = 3
       /\ Len(LaunchesOf(j)) = 2
       /\ LaunchesOf(j)[2].max_horizon = 1
  /\ \E j \in DOMAIN len_trajectories :
       /\ len_trajectories[j] = 2
       /\ Len(LaunchesOf(j)) = 1

\* C10 (as stated): when the segments planned from the primary rollout do
\* not sum to max_steps, play fails with an error before any search rollout
\* is launched.
C10_FailsOnPlanMismatch ==
  (len_trajectories # <<>> /\ Sum(len_trajectories) # max_steps) =>
    (error # "none" /\ ~SearchLaunched)

\* The fraction a = <<p, q>> is below the fraction b.
FracLess(a, b) == a[1] * b[2] < b[1] * a[2]

\* C11 (as stated): an instance whose mcts_start_step_frac is not below its
\* mcts_end_step_frac, or whose len_segment is not positive, never enters a
\* play call: its construction has failed.
C11_InvalidConfigNeverPlays ==
  events # <<>> =>
    /\ FracLess(mcts_start_step_frac, mcts_end_step_frac)
    /\ len_segment > 0

\* The step being taken is a direct call of `op` that directly follows
\* another direct call of `op`, so that no source buffer changed in between.
RepeatedCall(op) ==
  /\ events # <<>>
  /\ Last(events).op = op
  /\ Len(events') = Len(events) + 1
  /\ Last(events').op = op

\* C12 (as stated): a second call in a row of aggregate_mcts_data (with
\* mcts_sampling true or false) or of aggregate_policy_data, the source
\* buffers unchanged, leaves the target dataset as the first call left it.
C12_MergesIdempotent ==
  [][/\ RepeatedCall("caller.aggregate_mcts_data") => trajectory' = trajectory
     /\ RepeatedCall("caller.aggregate_policy_data") =>
          policy_trajectory' = policy_trajectory]_vars

\* C12 (amended): a second call in a row of aggregate_policy_data, or of
\* aggregate_mcts_data with mcts_sampling false, leaves the target dataset as
\* the first call left it; a second call of aggregate_mcts_data with
\* mcts_sampling true appends the search buffer's attribute once more to
\* every attribute, so an attribute is left as it was only where the search
\* buffer's attribute is empty.
C12_CopiesIdempotentSearchAppends ==
  [][/\ RepeatedCall("caller.aggregate_policy_data") =>
          policy_trajectory' = policy_trajectory
     /\ (RepeatedCall("caller.aggregate_mcts_data") /\ ~mcts_sampling) =>
          trajectory' = trajectory
     /\ (RepeatedCall("caller.aggregate_mcts_data") /\ mcts_sampling) =>
          \A a \in Attrs :
            /\ trajectory'[a].elems = trajectory[a].elems \o mcts_game.buffer[a]
            /\ (trajectory'[a] = trajectory[a]) <=> (mcts_game.buffer[a] = <<>>)]_vars

\* C12 witness: two direct calls in a row of aggregate_mcts_data after a
\* search step, the dataset now holding the last search buffer's states
\* more than once.
C12_Witness ==
  /\ Len(events) >= 2
  /\ events[Len(events) - 1].op = "caller.aggregate_mcts_data"
  /\ Last(events).op = "caller.aggregate_mcts_data"
  /\ mcts_sampling
  /\ mcts_game.buffer["trajectory_states"] # <<>>
  /\ \E i, j \in DOMAIN trajectory["trajectory_states"].elems :
       /\ i < j
       /\ trajectory["trajectory_states"].elems[i]
            = trajectory["trajectory_states"].elems[j]

\* The last play call took the branch of a step in the MCTS window: it did
\* not aggregate the primary rollout into the current-step dataset.
TookEligibleBranch ==
  /\ events # <<>>
  /\ \/ \E i \in DOMAIN events : events[i].op = "mcts_game.update_estimator"
     \/ ~\E i \in DOMAIN events : events[i].op = "aggregate_mcts_data"

\* C13: a play call treats its step as search-eligible iff mcts_enable and
\* mcts_start_step <= sampling_step < mcts_end_step; the steps are visited
\* one by one, so the eligible steps are the range
\* [mcts_start_step, mcts_end_step) and none follows once sampling_step has
\* reached mcts_end_step; with fractions 0.1 and 0.9 and 100 iterations they
\* are exactly the steps 10..89.
C13_EligibleWindow ==
  [][/\ TookEligibleBranch' <=>
          (mcts_enable /\ mcts_start_step <= sampling_step
                      /\ sampling_step < mcts_end_step)
     /\ sampling_step' = sampling_step + 1
     /\ sampling_step >= mcts_end_step =>
          (sampling_step' >= mcts_end_step' /\ ~TookEligibleBranch')
     /\ (/\ mcts_enable
         /\ mcts_start_step_frac = <<1, 10>>
         /\ mcts_end_step_frac = <<9, 10>>
         /\ num_iterations = 100) =>
          (TookEligibleBranch' <=> sampling_step \in 10..89)]_vars

\* C13 witness: the instance of 100 iterations after its play call at step
\* 90, which took the policy branch, the call at step 89 before it having
\* run search.
C13_Witness ==
  /\ num_iterations = 100
  /\ sampling_step = 91
  /\ mcts_sampling = FALSE
  /\ ~TookEligibleBranch
  /\ ~first_mcts

\* k is the integer part of frac * n, for a fraction <<p, q>> >= 0.
IsIntegerPart(k, frac, n) ==
  k * frac[2] <= frac[1] * n /\ frac[1] * n < (k + 1) * frac[2]

\* k is an integer nearest to frac * n (either neighbour at a half).
IsNearest(k, frac, n) ==
  /\ 2 * (frac[1] * n - k * frac[2]) <= frac[2]
  /\ 2 * (k * frac[2] - frac[1] * n) <= frac[2]

\* C14 (as stated): mcts_start_step and mcts_end_step are, from
\* construction on and after every play call, the integers nearest to
\* frac * num_iterations.
C14_StepsRounded ==
  /\ IsNearest(mcts_start_step, mcts_start_step_frac, num_iterations)
  /\ IsNearest(mcts_end_step, mcts_end_step_frac, num_iterations)

\* C14 (amended): mcts_start_step and mcts_end_step are, from construction
\* on and after every play call, the integer parts of frac * num_iterations
\* (the product truncated, not rounded to the nearest integer).
C14_StepsTruncated ==
  /\ IsIntegerPart(mcts_start_step, mcts_start_step_frac, num_iterations)
  /\ IsIntegerPart(mcts_end_step, mcts_end_step_frac, num_iterations)

\* C14 witness: after two play calls, an end step whose product has a
\* fractional part above one half, so that rounding would give the next
\* integer.
C14_Witness ==
  /\ calls_completed >= 2
  /\ 2 * (mcts_end_step_frac[1] * num_iterations
            - mcts_end_step * mcts_end_step_frac[2]) > mcts_end_step_frac[2]
  /\ mcts_start_step = mcts_end_step
  /\ FracLess(mcts_start_step_frac, mcts_end_step_frac)

\* C15 (as stated): when a merge fails at some attribute, no attribute of
\* its target dataset has been changed by the failing call: the dataset is
\* as the call found it, which in play is as the clearing before it left it.
C15_NoPartialDataset ==
  error = "ValueError" =>
    /\ Last(events).op = "aggregate_mcts_data" =>
         trajectory = initialize_episode_data
    /\ Last(events).op = "aggregate_policy_data" =>
         policy_trajectory = initialize_policy_episode_data

\* The primary source holds a rollout recorded in play call number `call`.
PrimaryRanIn(call) ==
  /\ master_game.buffer["trajectory_states"] # <<>>
  /\ \A t \in DOMAIN master_game.buffer["trajectory_states"] :
       master_game.buffer["trajectory_states"][t][3] = call
  /\ \E i \in DOMAIN events : events[i].op = "master_game.run_trajectory"

\* C16: a play call entered at an eligible step that the frequency gate
\* skips leaves the current-step dataset and mcts_sampling exactly as the
\* previous call left them, not refreshed from the primary rollout, which
\* it still runs, and it still increments sampling_step.
C16_SkippedStepFrame ==
  [][(EligibleAt(sampling_step) /\ ~ActiveAt(sampling_step)) =>
       /\ trajectory' = trajectory
       /\ mcts_sampling' = mcts_sampling
       /\ ~DatasetMirrorsPrimary'
       /\ \E call \in {sampling_step} : PrimaryRanIn(call)'
       /\ sampling_step' = sampling_step + 1]_vars

\* C16 witness: a skipped step entered right after a search-active one: the
\* flag is still up, the dataset still holds that step's search rollouts
\* and the primary source holds the rollout of the skipped step.
C16_Witness ==
  /\ calls_completed >= 2
  /\ EligibleAt(EntryStep) /\ ~ActiveAt(EntryStep)
  /\ ActiveAt(EntryStep - 1)
  /\ mcts_sampling
  /\ PrimaryRanIn(EntryStep)
  /\ \A x \in DatasetSamples : x[2] = "mcts_game" /\ x[3] = EntryStep - 1

\* The positions of the events of the last play call with operation op.
EventsAt(op) == {i \in DOMAIN events : events[i].op = op}

\* The position at which the k-th launch of the last play call begins when
\* the launches are the last events before aggregate_policy_data and the
\* increment of sampling_step.
LaunchStart(k) == Len(events) - 2 - 4 * (Len(launches) - k + 1) + 1

\* C17: the events of every completed play call are strictly ordered: the
\* primary source's update_estimator, reset, initialize_episode_data and
\* run_trajectory(max_steps) come first in every mode; in a search-active
\* step the search rollouts follow one at a time, segments in planner order
\* and sub-spans by increasing offset, each as mcts_initialization, clearing
\* of the search buffer, run_mcts_trajectory, aggregate_mcts_data;
\* aggregate_policy_data comes after the last of them; the increment of
\* sampling_step is last.
C17_EventsOrdered ==
  (events # <<>> /\ error = "none" /\ DirectCalls = 0) =>
    /\ Len(events) >= 5
    /\ events[1].op = "master_game.update_estimator"
    /\ events[2].op = "master_game.reset"
    /\ events[3].op = "master_game.initialize_episode_data"
    /\ events[4] = Ev("master_game.run_trajectory", max_steps)
    /\ EventsAt("sampling_step += 1") = {Len(events)}
    /\ ActiveAt(EntryStep) =>
         /\ EventsAt("aggregate_policy_data") = {Len(events) - 1}
         /\ EventsAt("mcts_game.update_estimator") # {}
         /\ \A i \in EventsAt("mcts_game.update_estimator") : i < LaunchStart(1)
         /\ EventsAt("mcts_game.mcts_initialization")
              = {LaunchStart(k) : k \in DOMAIN launches}
         /\ EventsAt("mcts_game.initialize_episode_data")
              = {LaunchStart(k) + 1 : k \in DOMAIN launches}
         /\ EventsAt("mcts_game.run_mcts_trajectory")
              = {LaunchStart(k) + 2 : k \in DOMAIN launches}
         /\ EventsAt("aggregate_mcts_data")
              = {LaunchStart(k) + 3 : k \in DOMAIN launches}
         /\ \A k \in DOMAIN launches :
              /\ LaunchStart(k) > 4
              /\ events[LaunchStart(k)].arg = launches[k].index
              /\ events[LaunchStart(k) + 2].arg = launches[k].max_horizon
         /\ \A k \in 1..(Len(launches) - 1) :
              /\ launches[k].seg <= launches[k + 1].seg
              /\ launches[k].index < launches[k + 1].index
              /\ launches[k].seg = launches[k + 1].seg =>
                   launches[k + 1].i = launches[k].i + 1
              /\ launches[k].seg < launches[k + 1].seg =>
                   launches[k + 1].i = 0
    /\ ~ActiveAt(EntryStep) =>
         \A i \in DOMAIN events :
           events[i].op \notin {"mcts_game.update_estimator",
                                "mcts_game.mcts_initialization",
                                "mcts_game.initialize_episode_data",
                                "mcts_game.run_mcts_trajectory"}

\* C17 witness: a search-active call of at least three search rollouts over
\* two segments, the first of them cut into more than one sub-span.
C17_Witness ==
  /\ error = "none"
  /\ Len(launches) >= 3
  /\ launches[1].seg = launches[2].seg
  /\ launches[2].seg < launches[3].seg
  /\ HandOffDone
  /\ Len(events) = 4 + 1 + 4 + 4 * Len(launches) + 2

\* Both sources hold the same statistics objects.
StatisticsShared ==
  /\ mcts_game.ob_rms = master_game.ob_rms
  /\ mcts_game.ret_rms = master_game.ret_rms

\* C18: from the play call of the hand-off on, no play call rebinds the
\* statistics of either source, and in every state after it the search
\* source's observation and return statistics are the very objects the
\* primary source holds.
C18_StatisticsStayShared ==
  [][/\ (\E t \in 0..sampling_step : EligibleAt(t)) => StatisticsShared'
     /\ ~first_mcts =>
          /\ StatisticsShared
          /\ master_game'.ob_rms = master_game.ob_rms
          /\ master_game'.ret_rms = master_game.ret_rms
          /\ mcts_game'.ob_rms = mcts_game.ob_rms
          /\ mcts_game'.ret_rms = mcts_game.ret_rms]_vars

\* C18 witness: two calls after the hand-off, the last one outside the
\* window, the search source still holding the primary source's objects.
C18_Witness ==
  /\ ~first_mcts
  /\ calls_completed >= 3
  /\ EligibleAt(EntryStep - 2)
  /\ ~EligibleAt(EntryStep)
  /\ mcts_game.ob_rms = "master_game._ob_rms"
  /\ mcts_game.ret_rms = "master_game._ret_rms"
  /\ StatisticsShared

\* The sum of the horizons of the first k launches of the last play call.
HorizonsBefore(k) == Sum([h \in 1..k |-> launches[h].max_horizon])

\* C19: in a search-active step whose planned segments are positive and sum
\* to max_steps, with len_segment >= 1, the index read from env_states and
\* trajectory_actions for each search rollout is the sum of the horizons of
\* the rollouts launched before it in the step; it lies in 0..max_steps-1,
\* the indices increase strictly, the first rollout of a segment starts at
\* the segment's first timestep, and all horizons sum to max_steps.
C19_IndexIsSumOfHorizons ==
  (/\ launches # <<>>
   /\ error = "none"
   /\ len_segment >= 1
   /\ \A j \in DOMAIN len_trajectories : len_trajectories[j] >= 1
   /\ Sum(len_trajectories) = max_steps) =>
    /\ \A k \in DOMAIN launches :
         /\ launches[k].index = HorizonsBefore(k - 1)
         /\ launches[k].index \in 0..(max_steps - 1)
         /\ PyIndexOk(Len(master_game.env_states), launches[k].index)
         /\ PyIndexOk(Len(master_game.buffer["trajectory_actions"]),
                      launches[k].index)
         /\ launches[k].i = 0 =>
              launches[k].index
                = Sum(SubSeq(len_trajectories, 1, launches[k].seg - 1))
    /\ \A k \in 1..(Len(launches) - 1) :
         launches[k].index < launches[k + 1].index
    /\ HorizonsBefore(Len(launches)) = max_steps
    /\ mcts_game.init_state
         = master_game.env_states[Last(launches).index + 1]
    /\ mcts_game.init_action
         = master_game.buffer["trajectory_actions"][Last(launches).index + 1]

\* C19 witness: a first segment of three steps cut into sub-spans of two
\* and one, and a second segment whose first rollout starts at timestep 3.
C19_Witness ==
  /\ error = "none"
  /\ len_segment = 2
  /\ Sum(len_trajectories) = max_steps
  /\ Len(launches) >= 3
  /\ launches[2].seg = 1 /\ launches[2].index = 2 /\ launches[2].max_horizon = 1
  /\ launches[3].seg = 2 /\ launches[3].i = 0 /\ launches[3].index = 3

\* The last play call entered the search branch (line 246 onward).
SearchBranchTaken ==
  \E i \in DOMAIN events : events[i].op = "mcts_game.update_estimator"

\* C20: with mcts_start_step >= 0 and mcts_collect_data_freq >= 1, the play
\* call at the first eligible step takes the search branch; a play call at
\* an eligible step skipped by the frequency gate is preceded by a
\* search-active step r with only eligible steps in between, and leaves
\* mcts_sampling true and the current-step dataset holding nothing but the
\* search rollouts of step r: arrays, filled whenever len_segment >= 1.
C20_SkippedStepHoldsSearchData ==
  [][/\ (/\ EligibleAt(sampling_step)
         /\ ~\E t \in 0..(sampling_step - 1) : EligibleAt(t)) =>
          SearchBranchTaken'
     /\ (EligibleAt(sampling_step) /\ ~ActiveAt(sampling_step)) =>
          \E r \in 0..(sampling_step - 1) :
            /\ ActiveAt(r)
            /\ \A t \in r..sampling_step : EligibleAt(t)
            /\ \A t \in (r + 1)..sampling_step : ~ActiveAt(t)
            /\ mcts_sampling' = TRUE
            /\ ~DatasetMirrorsPrimary'
            /\ \A x \in DatasetSamples' : x[2] = "mcts_game" /\ x[3] = r
            /\ len_segment >= 1 =>
                 /\ DatasetSamples' # {}
                 /\ \A a \in Attrs : trajectory'[a].dtype # "list"]_vars

\* C20 witness: a skipped step entered right after the search-active first
\* step of the window, whose dataset still holds that step's search data.
C20_Witness ==
  /\ calls_completed >= 2
  /\ mcts_collect_data_freq >= 2
  /\ len_segment >= 1
  /\ EntryStep - 1 = mcts_start_step
  /\ EligibleAt(EntryStep) /\ ~ActiveAt(EntryStep)
  /\ mcts_sampling
  /\ DatasetSamples # {}
  /\ \A x \in DatasetSamples : x[2] = "mcts_game" /\ x[3] = mcts_start_step
  /\ trajectory["trajectory_dones"].dtype = "bool"

====
